---- MODULE Spec2Model ----
(***************************************************************************)
(* Parametric CAD modeler: the shape builders of cad_library.py and the    *)
(* render / cache / compile pipeline of app.py.                            *)
(*                                                                         *)
(* Numbers.  Lengths are Python floats entered on sliders with two         *)
(* decimals; they are kept here as exact fixed-point integers, Unit ticks  *)
(* per length unit, fine enough that 0.15 * (a - b) and (a + b) / 2 are    *)
(* exact.  Angles in degrees are exact reduced fractions <<num, den>>.     *)
(***************************************************************************)
EXTENDS Integers, Sequences, FiniteSets, TLC

VARIABLES
    call,           \* library use: the builder called last and its arguments
    tree,           \* library use: what that builder returned
    sessions,       \* the script threads (browser sessions) of the process
    pc,             \* per session: position in the script run
    generated_obj,  \* per session: app.py generated_obj (a tree or None)
    scad_code,      \* per session: app.py scad_code (the rendered program)
    openscad_path,  \* per session: app.py openscad_path
    stl_data,       \* per session: app.py stl_data
    run,            \* per session: bookkeeping of the request in progress
    files,          \* the working directory: file name -> content or NoFile
    cache,          \* st.cache_data store of generate_stl_content
    log             \* finished generation requests, oldest first

vars == <<call, tree, sessions, pc, generated_obj, scad_code, openscad_path,
          stl_data, run, files, cache, log>>

libVars == <<call, tree>>
appVars == <<sessions, pc, generated_obj, scad_code, openscad_path,
             stl_data, run, files, cache, log>>

----------------------------------------------------------------------------
(* Fixed-point numbers and angles *)

Unit == 100 * 100

RECURSIVE GCD(_, _)
GCD(a, b) == IF b = 0 THEN a ELSE GCD(b, a % b)

\* the float quotient num / den, as a reduced fraction
Frac(num, den) ==
    LET g == GCD(num, den) IN <<num \div g, den \div g>>

\* i * f for an integer i and a fraction f
FracTimes(i, f) == Frac(i * f[1], f[2])

FracLess(f, g) == f[1] * g[2] < g[1] * f[2]

----------------------------------------------------------------------------
(* solid2 objects: the CSG nodes the builders compose *)

None == [op |-> "None"]

cylinder(r, h, fn) == [op |-> "cylinder", r |-> r, h |-> h, fn |-> fn]

cube(size) == [op |-> "cube", size |-> size]

translate(v, child) == [op |-> "translate", v |-> v, child |-> child]

rotate(a, child) == [op |-> "rotate", a |-> a, child |-> child]

up(obj, d) == translate(<<0, 0, d>>, obj)

down(obj, d) == translate(<<0, 0, 0 - d>>, obj)

right(obj, d) == translate(<<d, 0, 0>>, obj)

\* obj - other
difference(obj, other) == [op |-> "difference", children |-> <<obj, other>>]

\* obj + other
union(obj, other) == [op |-> "union", children |-> <<obj, other>>]

----------------------------------------------------------------------------
(* cad_library.py *)

create_bolt(head_radius, head_height, bolt_radius, bolt_length) ==
    LET head == cylinder(head_radius, head_height, 6)
        body == cylinder(bolt_radius, bolt_length, 100)
    IN  union(head, up(body, head_height))

\* variant: the factor of the comment in the source (1/5th of the rim width)
flange_hole_radius_fifth(flange_radius, pipe_radius) ==
    LET hole_radius == ((flange_radius - pipe_radius) * 20) \div 100
    IN  IF hole_radius <= 0 THEN 1 * Unit ELSE hole_radius

\* hole_radius of create_flange, with its fallback
flange_hole_radius(flange_radius, pipe_radius) ==
    LET hole_radius == ((flange_radius - pipe_radius) * 15) \div 100
    IN  IF hole_radius <= 0 THEN 1 * Unit ELSE hole_radius

\* variant: the hole rotated first and translated second
positioned_hole_rotate_first(hole_radius, thickness, epsilon, bolt_circle_radius, angle) ==
    LET hole == down(cylinder(hole_radius, thickness + 2 * epsilon, 100), epsilon)
    IN  right(rotate(<<Frac(0, 1), Frac(0, 1), angle>>, hole), bolt_circle_radius)

\* positioned_hole of create_flange for loop index i
positioned_hole(hole_radius, thickness, epsilon, bolt_circle_radius, angle) ==
    LET hole == down(cylinder(hole_radius, thickness + 2 * epsilon, 100), epsilon)
    IN  rotate(<<Frac(0, 1), Frac(0, 1), angle>>, right(hole, bolt_circle_radius))

\* for i in range(num_holes): ... bolt_holes.append(positioned_hole)
flange_bolt_holes(flange_radius, pipe_radius, thickness, num_holes, epsilon) ==
    LET bolt_circle_radius == (flange_radius + pipe_radius) \div 2
        hole_radius == flange_hole_radius(flange_radius, pipe_radius)
        angle_step == Frac(360, num_holes)
    IN  [k \in 1 .. num_holes |->
            positioned_hole(hole_radius, thickness, epsilon, bolt_circle_radius,
                            FracTimes(k - 1, angle_step))]

\* for h in bolt_holes: result -= h
RECURSIVE subtract_all(_, _)
subtract_all(result, holes) ==
    IF holes = <<>> THEN result
    ELSE subtract_all(difference(result, Head(holes)), Tail(holes))

create_flange(flange_radius, pipe_radius, thickness, num_holes) ==
    LET base == cylinder(flange_radius, thickness, 100)
        epsilon == Unit \div 10
        central_hole == down(cylinder(pipe_radius, thickness + 2 * epsilon, 100), epsilon)
        bolt_holes == flange_bolt_holes(flange_radius, pipe_radius, thickness,
                                        num_holes, epsilon)
    IN  subtract_all(difference(base, central_hole), bolt_holes)

\* variant: the bore extended but not shifted down
create_nut_unshifted(inner_radius, outer_radius, thickness) ==
    LET hex_body == cylinder(outer_radius, thickness, 6)
        epsilon == Unit \div 10
        hole == cylinder(inner_radius, thickness + 2 * epsilon, 100)
    IN  difference(hex_body, hole)

create_nut(inner_radius, outer_radius, thickness) ==
    LET hex_body == cylinder(outer_radius, thickness, 6)
        epsilon == Unit \div 10
        hole == down(cylinder(inner_radius, thickness + 2 * epsilon, 100), epsilon)
    IN  difference(hex_body, hole)

create_washer(inner_radius, outer_radius, thickness) ==
    LET disk == cylinder(outer_radius, thickness, 100)
        epsilon == Unit \div 10
        hole == down(cylinder(inner_radius, thickness + 2 * epsilon, 100), epsilon)
    IN  difference(disk, hole)

create_bracket(length, width, height, thickness) ==
    LET base == cube(<<length, width, thickness>>)
        upright == cube(<<thickness, width, height>>)
    IN  union(base, upright)

----------------------------------------------------------------------------
(* Direct use of the library: a builder applied to arguments *)

MinHoles == 3
MaxHoles == 6

\* lengths a caller may pass, in ticks: 5, 10, 10.01, 20, 50
Radii == {5 * Unit, 10 * Unit, 10 * Unit + Unit \div 100, 20 * Unit, 50 * Unit}

\* 0.5, 5
Thicknesses == {Unit \div 2, 5 * Unit}

\* 5, 30
Lengths == {5 * Unit, 30 * Unit}

HoleCounts == MinHoles .. MaxHoles

NoCall == [fn |-> "none"]

CallCreateBolt ==
    /\ \E hr \in Radii, hh \in Thicknesses, br \in Radii, bl \in Lengths :
          /\ call' = [fn |-> "create_bolt", head_radius |-> hr, head_height |-> hh,
                      bolt_radius |-> br, bolt_length |-> bl]
          /\ tree' = create_bolt(hr, hh, br, bl)
    /\ UNCHANGED appVars

CallCreateFlange ==
    /\ \E fr \in Radii, pr \in Radii, th \in Thicknesses, n \in HoleCounts :
          /\ call' = [fn |-> "create_flange", flange_radius |-> fr, pipe_radius |-> pr,
                      thickness |-> th, num_holes |-> n]
          /\ tree' = create_flange(fr, pr, th, n)
    /\ UNCHANGED appVars

CallCreateNut ==
    /\ \E ir \in Radii, orr \in Radii, th \in Thicknesses :
          /\ call' = [fn |-> "create_nut", inner_radius |-> ir, outer_radius |-> orr,
                      thickness |-> th]
          /\ tree' = create_nut(ir, orr, th)
    /\ UNCHANGED appVars

CallCreateWasher ==
    /\ \E ir \in Radii, orr \in Radii, th \in Thicknesses :
          /\ call' = [fn |-> "create_washer", inner_radius |-> ir, outer_radius |-> orr,
                      thickness |-> th]
          /\ tree' = create_washer(ir, orr, th)
    /\ UNCHANGED appVars

CallCreateBracket ==
    /\ \E l \in Lengths, w \in Lengths, h \in Lengths, th \in Thicknesses :
          /\ call' = [fn |-> "create_bracket", length |-> l, width |-> w,
                      height |-> h, thickness |-> th]
          /\ tree' = create_bracket(l, w, h, th)
    /\ UNCHANGED appVars

----------------------------------------------------------------------------
(* Reading a tree back *)

\* the operands subtracted from the innermost base, in subtraction order
RECURSIVE Subtracted(_)
Subtracted(t) ==
    IF t.op = "difference"
    THEN Append(Subtracted(t.children[1]), t.children[2])
    ELSE <<>>

\* the innermost base of a chain of subtractions
RECURSIVE BaseOf(_)
BaseOf(t) == IF t.op = "difference" THEN BaseOf(t.children[1]) ELSE t

\* the primitive under a node's transforms
RECURSIVE Primitive(_)
Primitive(t) ==
    IF t.op \in {"translate", "rotate"} THEN Primitive(t.child) ELSE t

\* the extent <<low, high>> of a node along the z axis (rotations are about z)
RECURSIVE ZSpan(_)
ZSpan(t) ==
    CASE t.op = "cylinder"  -> <<0, t.h>>
      [] t.op = "cube"      -> <<0, t.size[3]>>
      [] t.op = "translate" -> <<ZSpan(t.child)[1] + t.v[3], ZSpan(t.child)[2] + t.v[3]>>
      [] t.op = "rotate"    -> ZSpan(t.child)

----------------------------------------------------------------------------
(* solid2 scad_render: a tree as program text *)

\* four decimals of a tick count below one unit
Decimals(f) ==
    IF f < 10 THEN "000" \o ToString(f)
    ELSE IF f < 100 THEN "00" \o ToString(f)
    ELSE IF f < 1000 THEN "0" \o ToString(f)
    ELSE ToString(f)

\* a length as decimal text
Num(x) ==
    LET a == IF x < 0 THEN 0 - x ELSE x
    IN  (IF x < 0 THEN "-" ELSE "") \o ToString(a \div Unit) \o "." \o Decimals(a % Unit)

\* an angle as text
Deg(f) == IF f[2] = 1 THEN ToString(f[1]) ELSE ToString(f[1]) \o "/" \o ToString(f[2])

RECURSIVE scad_render(_)
scad_render(t) ==
    CASE t.op = "cylinder" ->
            "cylinder($fn = " \o ToString(t.fn) \o ", h = " \o Num(t.h)
                \o ", r = " \o Num(t.r) \o ");"
      [] t.op = "cube" ->
            "cube(size = [" \o Num(t.size[1]) \o ", " \o Num(t.size[2]) \o ", "
                \o Num(t.size[3]) \o "]);"
      [] t.op = "translate" ->
            "translate(v = [" \o Num(t.v[1]) \o ", " \o Num(t.v[2]) \o ", "
                \o Num(t.v[3]) \o "]) {" \o scad_render(t.child) \o "}"
      [] t.op = "rotate" ->
            "rotate(a = [" \o Deg(t.a[1]) \o ", " \o Deg(t.a[2]) \o ", "
                \o Deg(t.a[3]) \o "]) {" \o scad_render(t.child) \o "}"
      [] t.op \in {"difference", "union"} ->
            t.op \o "() {" \o scad_render(t.children[1])
                \o scad_render(t.children[2]) \o "}"

----------------------------------------------------------------------------
(* app.py: the sidebar *)

\* slider positions a session may hold when the script runs
UiInputs ==
    {[component |-> "Bolt", head_radius |-> 10 * Unit, head_height |-> 5 * Unit,
      bolt_radius |-> 5 * Unit, bolt_length |-> 30 * Unit]}
    \cup {[component |-> "Flange", flange_radius |-> fr, pipe_radius |-> 20 * Unit,
           thickness |-> 5 * Unit, num_holes |-> MinHoles] : fr \in {10 * Unit, 50 * Unit}}
    \cup {[component |-> "Nut", inner_radius |-> 5 * Unit, outer_radius |-> orr,
           thickness |-> 5 * Unit] : orr \in {2 * Unit, 10 * Unit}}
    \cup {[component |-> "Washer", inner_radius |-> 5 * Unit, outer_radius |-> orr,
           thickness |-> 2 * Unit] : orr \in {2 * Unit, 12 * Unit}}
    \cup {[component |-> "L-Bracket", length |-> 50 * Unit, width |-> 20 * Unit,
           height |-> 40 * Unit, thickness |-> 5 * Unit]}

\* what the settings tab may hold, and which of them os.path.exists finds
Paths == {"openscad.exe", "missing.exe"}

InstalledPaths == {"openscad.exe"}

\* the component branches: generated_obj after the sidebar
Dispatch(ui) ==
    CASE ui.component = "Bolt" ->
            create_bolt(ui.head_radius, ui.head_height, ui.bolt_radius, ui.bolt_length)
      [] ui.component = "Flange" ->
            IF ui.pipe_radius >= ui.flange_radius THEN None
            ELSE create_flange(ui.flange_radius, ui.pipe_radius, ui.thickness, ui.num_holes)
      [] ui.component = "Nut" ->
            IF ui.inner_radius >= ui.outer_radius THEN None
            ELSE create_nut(ui.inner_radius, ui.outer_radius, ui.thickness)
      [] ui.component = "Washer" ->
            IF ui.inner_radius >= ui.outer_radius THEN None
            ELSE create_washer(ui.inner_radius, ui.outer_radius, ui.thickness)
      [] ui.component = "L-Bracket" ->
            create_bracket(ui.length, ui.width, ui.height, ui.thickness)

----------------------------------------------------------------------------
(* app.py: generate_stl_content behind st.cache_data, and the preview *)

MaxRequests == 3
MaxConcurrentRequests == 2

RequestLimit == IF Cardinality(sessions) = 1 THEN MaxRequests ELSE MaxConcurrentRequests

TempFiles == {"temp.scad", "temp.stl"}

FileNames == TempFiles \cup {"preview_cache.stl"}

NoFile == [op |-> "NoFile"]

Text(program) == [op |-> "text", text |-> program]

\* the mesh the compiler makes of a program
Mesh(program) == [op |-> "mesh", of |-> program]

Existing == {f \in TempFiles : files[f] # NoFile}

\* the cache key of a call: its arguments
Key(s) == <<scad_code[s], openscad_path[s]>>

Cached(k) == \E e \in cache : e.key = k

CacheValue(k) == (CHOOSE e \in cache : e.key = k).value

\* sessions inside the function body
Computing == {"write", "check", "compile", "read"}

InFlight == {s \in sessions : pc[s] # "idle"}

NewRun ==
    [before |-> Existing, hit |-> FALSE, wrote |-> {}, compiled |-> FALSE,
     exit |-> "none", produced |-> FALSE]

\* the record of a finished request
Entry(s, outcome, data) ==
    [scad_code |-> scad_code[s], scad_path |-> openscad_path[s], outcome |-> outcome,
     stl_data |-> data, hit |-> run[s].hit, wrote |-> run[s].wrote,
     compiled |-> run[s].compiled, exit |-> run[s].exit, produced |-> run[s].produced,
     before |-> run[s].before, after |-> Existing]

\* an exception leaves generate_stl_content and reaches the handlers of the preview
Raise(s, outcome) ==
    /\ pc' = [pc EXCEPT ![s] = "idle"]
    /\ log' = Append(log, Entry(s, outcome, None))
    /\ UNCHANGED <<stl_data, files, cache>>

\* the script runs: sidebar, builder, scad_render
Rerun(s) ==
    /\ pc[s] = "idle"
    /\ Len(log) + Cardinality(InFlight) < RequestLimit
    /\ \E ui \in UiInputs, path \in Paths :
          LET obj == Dispatch(ui) IN
          /\ generated_obj' = [generated_obj EXCEPT ![s] = obj]
          /\ stl_data' = [stl_data EXCEPT ![s] = None]
          /\ IF obj = None
             THEN /\ scad_code' = [scad_code EXCEPT ![s] = ""]
                  /\ openscad_path' = [openscad_path EXCEPT ![s] = ""]
                  /\ UNCHANGED <<pc, run>>
             ELSE /\ scad_code' = [scad_code EXCEPT ![s] = scad_render(obj)]
                  /\ openscad_path' = [openscad_path EXCEPT ![s] = path]
                  /\ pc' = [pc EXCEPT ![s] = "call"]
                  /\ run' = [run EXCEPT ![s] = NewRun]
    /\ UNCHANGED <<sessions, files, cache, log>>
    /\ UNCHANGED libVars

\* st.cache_data finds the arguments: the body does not run
CacheHit(s) ==
    /\ pc[s] = "call"
    /\ Cached(Key(s))
    /\ stl_data' = [stl_data EXCEPT ![s] = CacheValue(Key(s))]
    /\ run' = [run EXCEPT ![s].hit = TRUE]
    /\ pc' = [pc EXCEPT ![s] = "preview"]
    /\ UNCHANGED <<sessions, generated_obj, scad_code, openscad_path, files, cache, log>>
    /\ UNCHANGED libVars

\* st.cache_data does not find them: the body runs, one computation per key at a time
CacheMiss(s) ==
    /\ pc[s] = "call"
    /\ ~Cached(Key(s))
    /\ ~\E t \in sessions \ {s} : pc[t] \in Computing /\ Key(t) = Key(s)
    /\ pc' = [pc EXCEPT ![s] = "write"]
    /\ UNCHANGED <<sessions, generated_obj, scad_code, openscad_path, stl_data, run,
                   files, cache, log>>
    /\ UNCHANGED libVars

\* with open("temp.scad", "w") as f: f.write(scad_code)
WriteScad(s) ==
    /\ pc[s] = "write"
    /\ files' = [files EXCEPT !["temp.scad"] = Text(scad_code[s])]
    /\ run' = [run EXCEPT ![s].wrote = @ \cup {"temp.scad"}]
    /\ pc' = [pc EXCEPT ![s] = "check"]
    /\ UNCHANGED <<sessions, generated_obj, scad_code, openscad_path, stl_data, cache, log>>
    /\ UNCHANGED libVars

\* if not os.path.exists(scad_path): raise FileNotFoundError
CheckPath(s) ==
    /\ pc[s] = "check"
    /\ IF openscad_path[s] \in InstalledPaths
       THEN /\ pc' = [pc EXCEPT ![s] = "compile"]
            /\ UNCHANGED <<stl_data, files, cache, log>>
       ELSE Raise(s, "CompilerNotFound")
    /\ UNCHANGED <<sessions, generated_obj, scad_code, openscad_path, run>>
    /\ UNCHANGED libVars

\* subprocess.run([scad_path, "-o", "temp.stl", "temp.scad"], check=True): the
\* compiler reads temp.scad as it is now and fails, or writes temp.stl, or exits
\* with status 0 and writes nothing
RunCompiler(s) ==
    /\ pc[s] = "compile"
    /\ \/ /\ run' = [run EXCEPT ![s].compiled = TRUE, ![s].exit = "nonzero"]
          /\ pc' = [pc EXCEPT ![s] = "idle"]
          /\ log' = Append(log, [Entry(s, "CompilationFailed", None)
                                   EXCEPT !.compiled = TRUE, !.exit = "nonzero"])
          /\ UNCHANGED files
       \/ /\ run' = [run EXCEPT ![s].compiled = TRUE, ![s].exit = "zero",
                                ![s].produced = TRUE, ![s].wrote = @ \cup {"temp.stl"}]
          /\ files' = [files EXCEPT !["temp.stl"] = Mesh(files["temp.scad"].text)]
          /\ pc' = [pc EXCEPT ![s] = "read"]
          /\ UNCHANGED log
       \/ /\ run' = [run EXCEPT ![s].compiled = TRUE, ![s].exit = "zero"]
          /\ pc' = [pc EXCEPT ![s] = "read"]
          /\ UNCHANGED <<files, log>>
    /\ UNCHANGED <<sessions, generated_obj, scad_code, openscad_path, stl_data, cache>>
    /\ UNCHANGED libVars

\* variant: the returned value is not stored
ReadStl_not_stored(s) ==
    /\ pc[s] = "read"
    /\ LET ret == IF files["temp.stl"] # NoFile THEN files["temp.stl"] ELSE None IN
          stl_data' = [stl_data EXCEPT ![s] = ret]
    /\ pc' = [pc EXCEPT ![s] = "preview"]
    /\ UNCHANGED <<sessions, generated_obj, scad_code, openscad_path, run, files, cache, log>>
    /\ UNCHANGED libVars

\* if os.path.exists("temp.stl"): return f.read(); return None -- and
\* st.cache_data stores what was returned
ReadStl(s) ==
    /\ pc[s] = "read"
    /\ LET ret == IF files["temp.stl"] # NoFile THEN files["temp.stl"] ELSE None IN
          /\ stl_data' = [stl_data EXCEPT ![s] = ret]
          /\ cache' = cache \cup {[key |-> Key(s), value |-> ret]}
    /\ pc' = [pc EXCEPT ![s] = "preview"]
    /\ UNCHANGED <<sessions, generated_obj, scad_code, openscad_path, run, files, log>>
    /\ UNCHANGED libVars

\* if stl_data: write preview_cache.stl and show it; else warn of no output
Preview(s) ==
    /\ pc[s] = "preview"
    /\ IF stl_data[s] # None
       THEN /\ files' = [files EXCEPT !["preview_cache.stl"] = stl_data[s]]
            /\ log' = Append(log, Entry(s, "Mesh", stl_data[s]))
       ELSE /\ log' = Append(log, Entry(s, "EmptyOutput", None))
            /\ UNCHANGED files
    /\ pc' = [pc EXCEPT ![s] = "idle"]
    /\ UNCHANGED <<sessions, generated_obj, scad_code, openscad_path, stl_data, run, cache>>
    /\ UNCHANGED libVars

----------------------------------------------------------------------------
InitLib ==
    /\ call = NoCall
    /\ tree = None

InitApp(ss) ==
    /\ sessions = ss
    /\ pc = [s \in ss |-> "idle"]
    /\ generated_obj = [s \in ss |-> None]
    /\ scad_code = [s \in ss |-> ""]
    /\ openscad_path = [s \in ss |-> ""]
    /\ stl_data = [s \in ss |-> None]
    /\ files = [f \in FileNames |-> NoFile]
    /\ run = [s \in ss |-> NewRun]
    /\ cache = {}
    /\ log = <<>>

Init == InitLib /\ InitApp({1})

InitConcurrent == InitLib /\ InitApp({1, 2})

NextLib ==
    \/ CallCreateBolt
    \/ CallCreateFlange
    \/ CallCreateNut
    \/ CallCreateWasher
    \/ CallCreateBracket

Next ==
    \/ \E s \in sessions : Rerun(s)
    \/ \E s \in sessions : CacheHit(s)
    \/ \E s \in sessions : CacheMiss(s)
    \/ \E s \in sessions : WriteScad(s)
    \/ \E s \in sessions : CheckPath(s)
    \/ \E s \in sessions : RunCompiler(s)
    \/ \E s \in sessions : ReadStl(s)
    \/ \E s \in sessions : Preview(s)

\* one session: requests one at a time
Spec == Init /\ [][Next]_vars

\* two sessions: script threads of one process, sharing its cache and directory
SpecConcurrent == InitConcurrent /\ [][Next]_vars

\* the library called directly
SpecLib == Init /\ [][NextLib]_vars

----------------------------------------------------------------------------
(* Properties of the builders, under SpecLib *)

IsTree(t) == t.op \in {"cylinder", "cube", "translate", "rotate", "difference", "union"}

IsFlangeCall == call.fn = "create_flange"

\* the bolt holes of a flange tree: what is subtracted after the central bore
BoltHoles(t) == SubSeq(Subtracted(t), 2, Len(Subtracted(t)))

\* C5: create_flange called with pipeRadius >= flangeRadius, and create_nut and
\* create_washer called with innerRadius >= outerRadius, fail with
\* InvalidParameters and return no tree.
C5_BuildersRejectInvalid ==
    /\ (IsFlangeCall /\ call.pipe_radius >= call.flange_radius) => ~IsTree(tree)
    /\ (call.fn \in {"create_nut", "create_washer"}
            /\ call.inner_radius >= call.outer_radius) => ~IsTree(tree)

\* C6: for valid flange parameters the tree subtracts the central bore and then
\* exactly numHoles bolt holes; hole i is translated outward by
\* (flangeRadius + pipeRadius) / 2 first and rotated about the z axis by
\* i * 360 / numHoles second; the angles lie in [0, 360) and are pairwise distinct.
C6_FlangeHolePattern ==
    (IsFlangeCall /\ call.pipe_radius < call.flange_radius) =>
        LET n == call.num_holes
            holes == BoltHoles(tree)
        IN  /\ Len(Subtracted(tree)) = n + 1
            /\ Primitive(Subtracted(tree)[1]).r = call.pipe_radius
            /\ Len(holes) = n
            /\ \A i \in 0 .. n - 1 :
                  LET h == holes[i + 1] IN
                  /\ h.op = "rotate"
                  /\ h.a[1] = <<0, 1>> /\ h.a[2] = <<0, 1>>
                  /\ h.a[3][1] * n = 360 * i * h.a[3][2]
                  /\ h.a[3][1] >= 0 /\ FracLess(h.a[3], <<360, 1>>)
                  /\ h.child.op = "translate"
                  /\ 2 * h.child.v[1] = call.flange_radius + call.pipe_radius
                  /\ h.child.v[2] = 0 /\ h.child.v[3] = 0
                  /\ h.child.child.op = "translate"
                  /\ h.child.child.v[1] = 0 /\ h.child.child.v[2] = 0
                  /\ h.child.child.child.op = "cylinder"
            /\ \A i, j \in 1 .. n : i # j => holes[i].a[3] # holes[j].a[3]

\* a valid flange with more holes than the minimum was built
C6_Witness ==
    /\ IsFlangeCall
    /\ call.pipe_radius < call.flange_radius
    /\ call.num_holes > MinHoles
    /\ Len(BoltHoles(tree)) = call.num_holes

\* flangeRadius is greater than pipeRadius by no more than one slider step (0.01)
Marginal == 0 < call.flange_radius - call.pipe_radius
            /\ call.flange_radius - call.pipe_radius <= Unit \div 100

C8_EpsilonExtension ==
    (call.fn \in {"create_flange", "create_nut", "create_washer"}) =>
        LET eps == Unit \div 10
            subs == Subtracted(tree)
        IN  /\ Len(subs) >= 1
            /\ ZSpan(BaseOf(tree)) = <<0, call.thickness>>
            /\ \A i \in 1 .. Len(subs) :
                  /\ Primitive(subs[i]).op = "cylinder"
                  /\ Primitive(subs[i]).h = call.thickness + 2 * eps
                  /\ ZSpan(subs[i]) = <<0 - eps, call.thickness + eps>>
                  /\ ZSpan(subs[i])[1] < 0
                  /\ ZSpan(subs[i])[2] > call.thickness

\* a nut was built, with its one bore
C8_Witness ==
    /\ call.fn = "create_nut"
    /\ Len(Subtracted(tree)) = 1
    /\ ZSpan(Subtracted(tree)[1])[1] < 0

----------------------------------------------------------------------------
(* Properties of the pipeline, under Spec and SpecConcurrent *)

Requests == 1 .. Len(log)

SameCall(i, j) ==
    /\ log[i].scad_code = log[j].scad_code
    /\ log[i].scad_path = log[j].scad_path

Returned(i) == log[i].outcome \in {"Mesh", "EmptyOutput"}

C2_NotFoundLeavesNoFiles ==
    \A i \in Requests :
        log[i].scad_path \notin InstalledPaths =>
            /\ log[i].outcome = "CompilerNotFound"
            /\ ~log[i].compiled
            /\ log[i].after = log[i].before

\* C3: a request whose compiler exits with status 0 and writes no output ends in
\* EmptyOutput and returns no mesh bytes.
C3_NoOutputIsEmptyOutput ==
    \A i \in Requests :
        (log[i].compiled /\ log[i].exit = "zero" /\ ~log[i].produced) =>
            /\ log[i].outcome = "EmptyOutput"
            /\ log[i].stl_data = None

\* C4: after a request that ran the compiler invoker, no temporary file written
\* during it still exists.
C4_TempFilesReleased ==
    \A i \in Requests :
        ~log[i].hit => log[i].wrote \cap log[i].after = {}

\* C9: a request for whose invocation the compiler wrote a mesh returns, and the
\* cache holds under its key, the mesh of that request's own program.
C9_OwnMesh ==
    \A i \in Requests :
        (log[i].outcome = "Mesh" /\ log[i].produced) =>
            /\ log[i].stl_data = Mesh(log[i].scad_code)
            /\ CacheValue(<<log[i].scad_code, log[i].scad_path>>) = Mesh(log[i].scad_code)

\* C10: every cache entry maps a program to the mesh compiled from that program;
\* a request that ends in a failure stores nothing.
C10_CacheHoldsOwnMeshes ==
    /\ \A e \in cache : e.value = Mesh(e.key[1])
    /\ \A i \in Requests :
          (~log[i].hit /\ log[i].outcome # "Mesh") =>
              \/ Cached(<<log[i].scad_code, log[i].scad_path>>) = FALSE
              \/ \E j \in Requests : j # i /\ SameCall(i, j) /\ log[j].outcome = "Mesh"

====
